---- MODULE Spec2Model ----
(***************************************************************************)
(* Model of src/anomoly_detection.py: the gas-turbine anomaly pipeline.    *)
(*                                                                         *)
(* The script is a straight-line batch run over one data frame.  The state *)
(* is the data frame (its ordered column names and, per column, the values *)
(* of the records in order), the resolved column lists, the two external   *)
(* estimators, the raised error and the written report.  One action per    *)
(* section of the script, in the script's order.                           *)
(*                                                                         *)
(* Numbers.  Sensor readings are integers.  Every comparison the script    *)
(* makes between a deviation and a multiple of a standard deviation is     *)
(* decided exactly, in integers, after squaring and clearing denominators. *)
(* A value handed to an estimator is a real number  sgn * sqrt(num/den)    *)
(* kept as a record with num/den in lowest terms, so that a standardized   *)
(* value and a raw value are equal exactly when they are the same number.  *)
(*                                                                         *)
(* The Isolation Forest and the linear regression are external: a fitted   *)
(* model is a function of the row it is given, so predict is modelled as   *)
(* an arbitrary function from the distinct rows of its argument to its     *)
(* result set.                                                             *)
(*                                                                         *)
(* The model starts at line 50, with the cleaned, renamed, non-empty,      *)
(* gap-free numeric frame whose columns are input columns only.            *)
(***************************************************************************)
EXTENDS Integers, Sequences, FiniteSets, TLC

VARIABLES
    pc,          \* the section of the script about to run, "done" or "error"
    columns,     \* df.columns: the ordered column names
    df,          \* the data frame: column name -> sequence of values (one per record)
    nrows,       \* len(df.index): the number of records
    key_cols,    \* line 51
    reg_inputs,  \* line 77
    iso,         \* the IsolationForest: fitted?, and the matrix it was fitted on
    iso_input,   \* the matrix handed to iso.predict (line 72)
    reg,         \* the LinearRegression: fitted?
    error,       \* the message of the ValueError raised, <<>> while none
    report       \* the reports written by to_csv, in order

vars == <<pc, columns, df, nrows, key_cols, reg_inputs, iso, iso_input, reg,
          error, report>>

-----------------------------------------------------------------------------
(* Bounds of the model *)

MaxN == 11

MaxVal == 4

MaxCols == 3

MaxPred == 1

SweepRows == 2

-----------------------------------------------------------------------------
(* Program constants *)

candidate_cols == <<"TIT", "TAT", "TEY", "CDP", "CO", "NOx">>

reg_candidates == <<"AT", "AP", "RH", "CDP">>

z_thresh == 3

res_sigmas == 3

flag_cols == <<"anomaly", "z_flag", "iso_flag", "res_flag">>

diag_cols == <<"TEY_pred", "residual">>

\* Column names an input file may carry: the nine the script looks for and
\* one it ignores.
Universe == {"TIT", "TAT", "TEY", "CDP", "CO", "NOx", "AT", "AP", "RH", "AFDP"}

Derived == {"z_flag", "iso_flag", "TEY_pred", "residual", "res_flag", "anomaly"}

-----------------------------------------------------------------------------
(* Sequences and arithmetic *)

Range(s) == {s[i] : i \in DOMAIN s}

RECURSIVE Filter(_, _)
\* [c for c in s if c in S]
Filter(s, S) ==
    IF s = <<>> THEN <<>>
    ELSE IF Head(s) \in S THEN <<Head(s)>> \o Filter(Tail(s), S)
    ELSE Filter(Tail(s), S)

RECURSIVE Sum(_)
Sum(s) == IF s = <<>> THEN 0 ELSE Head(s) + Sum(Tail(s))

Sign(x) == IF x < 0 THEN -1 ELSE IF x = 0 THEN 0 ELSE 1

RECURSIVE Gcd(_, _)
Gcd(a, b) == IF b = 0 THEN a ELSE Gcd(b, a % b)

\* The real number sgn * sqrt(n/d), n >= 0, d > 0, in lowest terms.
Root(sgn, n, d) ==
    IF n = 0 THEN [sgn |-> 0, num |-> 0, den |-> 1]
    ELSE LET g == Gcd(n, d) IN [sgn |-> sgn, num |-> n \div g, den |-> d \div g]

\* An integer reading as a real number.
ToFloat(x) == Root(Sign(x), x * x, 1)

\* N times the deviations of a column from its mean: N*x[i] - sum(x).
Dev(x) ==
    LET n == Len(x)
        t == Sum(x)
    IN  [i \in DOMAIN x |-> n * x[i] - t]

\* The sum of the squares of Dev(x): N^2 times the sum of squared deviations.
SumSq(x) ==
    LET dv == Dev(x)
    IN  Sum([i \in DOMAIN x |-> dv[i] * dv[i]])

RECURSIVE BitOr(_, _)
\* Python's | on non-negative integers.
BitOr(a, b) ==
    IF a = 0 THEN b
    ELSE IF b = 0 THEN a
    ELSE (IF a % 2 = 1 \/ b % 2 = 1 THEN 1 ELSE 0) + 2 * BitOr(a \div 2, b \div 2)

-----------------------------------------------------------------------------
(* The data frame *)

\* A faulty variant of SetValues: the assignment is broadcast to every
\* column of the frame (df[:] = vals).
SetValuesBroadcast(d, name, vals) ==
    [c \in DOMAIN d \cup {name} |-> vals]

\* df[name] = vals: a column that exists is overwritten in place, a new one
\* is appended after the last.
SetColumns(cols, name) ==
    IF name \in Range(cols) THEN cols ELSE Append(cols, name)

SetValues(d, name, vals) ==
    [c \in DOMAIN d \cup {name} |-> IF c = name THEN vals ELSE d[c]]

\* df[cols]: the rows of the frame restricted to cols, in order.
Matrix(d, cols, n) ==
    [i \in 1..n |-> [j \in DOMAIN cols |-> d[cols[j]][i]]]

-----------------------------------------------------------------------------
(* Column Resolver: lines 50-56 *)

\* A faulty variant of resolve: the present candidates in the schema's order
\* ([c for c in df.columns if c in candidate_cols]).
resolve_schema_order(cols) == Filter(cols, Range(candidate_cols))

\* key_cols = [c for c in candidate_cols if c in df.columns]
resolve(cols) == Filter(candidate_cols, Range(cols))

\* if not key_cols
NoSensorColumns(key) == key = <<>>

\* The message of line 53-56, word by word: the text, then list(df.columns).
NoSensorMessage(cols) ==
    <<"None of the expected sensor columns found.", "Available columns are:">>
        \o cols

-----------------------------------------------------------------------------
(* Z-Score Detector: lines 61-63 *)

\* A faulty variant of ZAbove: an undefined score (NaN) counts as above the
\* threshold.
ZAboveUndefined(x, i) ==
    LET n  == Len(x)
        dv == Dev(x)[i]
        ss == SumSq(x)
    IN  IF n < 2 THEN TRUE
        ELSE IF ss = 0 THEN TRUE
        ELSE (n - 1) * dv * dv > z_thresh * z_thresh * ss

\* A faulty variant of ZAbove: the population standard deviation
\* (x.std(ddof=0)) in place of the sample one.
ZAbovePopulation(x, i) ==
    LET n  == Len(x)
        dv == Dev(x)[i]
        ss == SumSq(x)
    IN  IF ss = 0 THEN dv # 0
        ELSE n * dv * dv > z_thresh * z_thresh * ss

\* abs((x[i] - x.mean()) / x.std()) > z_thresh, with pandas' x.std(): the
\* sample standard deviation, sqrt(sum of squared deviations / (N - 1)).
\* With one record x.std() is NaN; with a constant column it is 0 and the
\* quotient is 0/0 = NaN (a non-zero deviation over 0 would be infinite);
\* NaN > z_thresh is False and inf > z_thresh is True.
ZAbove(x, i) ==
    LET n  == Len(x)
        dv == Dev(x)[i]
        ss == SumSq(x)
    IN  IF n < 2 THEN FALSE
        ELSE IF ss = 0 THEN dv # 0
        ELSE (n - 1) * dv * dv > z_thresh * z_thresh * ss

\* (np.abs(z_scores) > z_thresh).any(axis=1).astype(int)
z_flag(d, cols, n) ==
    [i \in 1..n |->
        IF \E j \in DOMAIN cols : ZAbove(d[cols[j]], i) THEN 1 ELSE 0]

-----------------------------------------------------------------------------
(* Density Outlier Detector: lines 68-72 *)

\* StandardScaler on one column: (x - mean) / scale, where scale is the
\* population standard deviation sqrt(sum of squared deviations / N), and 1
\* for a constant column.
StandardColumn(x) ==
    LET n  == Len(x)
        dv == Dev(x)
        ss == SumSq(x)
    IN  [i \in DOMAIN x |->
            IF ss = 0 THEN Root(Sign(dv[i]), dv[i] * dv[i], n * n)
            ELSE Root(Sign(dv[i]), n * dv[i] * dv[i], ss)]

\* StandardScaler().fit_transform(df[cols])
fit_transform(d, cols, n) ==
    LET std == [j \in DOMAIN cols |-> StandardColumn(d[cols[j]])]
    IN  [i \in 1..n |-> [j \in DOMAIN cols |-> std[j][i]]]

\* The float array an estimator makes of the frame it is given.
AsArray(d, cols, n) ==
    [i \in 1..n |-> [j \in DOMAIN cols |-> ToFloat(d[cols[j]][i])]]

\* The argument of iso.predict on line 72.
PredictArgument(d, cols, n) == AsArray(d, cols, n)

\* What a fitted forest may answer on X: a label, 1 (inlier) or -1 (outlier),
\* for each row, the same label for equal rows.
Labellings(X) == [Range(X) -> {1, -1}]

\* (iso.predict(X) == -1).astype(int)
iso_flag(X, label) == [i \in DOMAIN X |-> IF label[X[i]] = -1 THEN 1 ELSE 0]

-----------------------------------------------------------------------------
(* Residual Detector: lines 77-90 *)

\* reg_inputs = [c for c in ["AT", "AP", "RH", "CDP"] if c in df.columns]
resolve_inputs(cols) == Filter(reg_candidates, Range(cols))

\* A faulty variant of ResidualUnmet: "and" in place of "or".
ResidualUnmetBoth(inputs, cols) == Len(inputs) < 2 /\ "TEY" \notin Range(cols)

\* if len(reg_inputs) < 2 or "TEY" not in df.columns
ResidualUnmet(inputs, cols) == Len(inputs) < 2 \/ "TEY" \notin Range(cols)

\* The message of line 79-80, word by word.
ResidualMessage ==
    <<"Need", "TEY", "plus at least two of", "AT", "AP", "RH", "CDP",
      "for the residual model.", "Check your CSV columns.">>

\* What a fitted regression may predict on X: a value for each row, the same
\* value for equal rows.
Predictions(X) == [Range(X) -> 0..MaxPred]

\* reg.predict(X)
TEY_pred(X, f) == [i \in DOMAIN X |-> f[X[i]]]

\* residual_std = df["TEY"] - df["TEY_pred"]
residual(y, pred) == [i \in DOMAIN y |-> y[i] - pred[i]]

\* abs(r[i]) > 3 * r.std(), r.std() the sample standard deviation of the
\* residuals: NaN with one record (and the comparison False).
ResAbove(r, i) ==
    LET n == Len(r)
    IN  IF n < 2 THEN FALSE
        ELSE n * n * (n - 1) * r[i] * r[i]
                 > res_sigmas * res_sigmas * SumSq(r)

\* (np.abs(df["residual"]) > three_sigma).astype(int)
res_flag(r) == [i \in DOMAIN r |-> IF ResAbove(r, i) THEN 1 ELSE 0]

-----------------------------------------------------------------------------
(* Ensemble Combiner: lines 95-97 *)

\* A faulty variant of anomaly: the residual flag is left out.
anomaly_two_flags(z, s, r) == [i \in DOMAIN z |-> BitOr(z[i], s[i])]

\* (df["z_flag"] | df["iso_flag"] | df["res_flag"]).astype(int)
anomaly(z, s, r) == [i \in DOMAIN z |-> BitOr(BitOr(z[i], s[i]), r[i])]

-----------------------------------------------------------------------------
(* Report Assembler: lines 102-107 *)

report_cols(key) == flag_cols \o key \o diag_cols

\* df[report_cols].to_csv(..., index=False): the header and the rows.
to_csv(d, cols, n) == [header |-> cols, rows |-> Matrix(d, cols, n)]

-----------------------------------------------------------------------------
(* Inputs *)

\* The input schemas of the schema sweep: up to k distinct column names, in
\* any order.
Schemas(k) ==
    {s \in UNION {[1..n -> Universe] : n \in 1..k} :
        \A i, j \in DOMAIN s : i # j => s[i] # s[j]}

\* The schema of the data sweep: a target, a sensor and three predictors.
scenario_cols == <<"TIT", "TEY", "AT", "AP", "RH">>

\* A column of n readings: a, then b, then zeros.
Column(n, a, b) == [i \in 1..n |-> IF i = 1 THEN a ELSE IF i = 2 THEN b ELSE 0]

\* A frame over schema: column hot reads a, b, 0, 0, ...; every other column
\* is constant o.
Frame(schema, n, hot, a, b, o) ==
    [c \in Range(schema) |-> IF c = hot THEN Column(n, a, b) ELSE [i \in 1..n |-> o]]

\* Every schema, over one small frame.
SweepInputs ==
    {[schema |-> s, n |-> SweepRows, data |-> Frame(s, SweepRows, s[1], 1, 0, 0)] :
        s \in Schemas(MaxCols)}

\* One schema, over frames of every size up to MaxN.
DataInputs ==
    {[schema |-> scenario_cols, n |-> n,
      data |-> Frame(scenario_cols, n, hot, a, b, o)] :
        n \in 1..MaxN, hot \in Range(scenario_cols),
        a \in 0..MaxVal, b \in 0..MaxVal, o \in 0..1}

Inputs == SweepInputs \cup DataInputs

-----------------------------------------------------------------------------
(* The script *)

\* df after lines 34-45: the cleaned frame.
Init ==
    \E inp \in Inputs :
        /\ pc = "resolve"
        /\ columns = inp.schema
        /\ df = inp.data
        /\ nrows = inp.n
        /\ key_cols = <<>>
        /\ reg_inputs = <<>>
        /\ iso = [fitted |-> FALSE, X |-> <<>>]
        /\ iso_input = <<>>
        /\ reg = [fitted |-> FALSE]
        /\ error = <<>>
        /\ report = <<>>

\* Lines 50-56.
Resolve ==
    /\ pc = "resolve"
    /\ key_cols' = resolve(columns)
    /\ IF NoSensorColumns(key_cols')
       THEN /\ pc' = "error"
            /\ error' = NoSensorMessage(columns)
       ELSE /\ pc' = "zscore"
            /\ error' = error
    /\ UNCHANGED <<columns, df, nrows, reg_inputs, iso, iso_input, reg, report>>

\* Lines 61-63.
ZScore ==
    /\ pc = "zscore"
    /\ df' = SetValues(df, "z_flag", z_flag(df, key_cols, nrows))
    /\ columns' = SetColumns(columns, "z_flag")
    /\ pc' = "iso_fit"
    /\ UNCHANGED <<nrows, key_cols, reg_inputs, iso, iso_input, reg, error, report>>

\* Lines 68-71.
IsoFit ==
    /\ pc = "iso_fit"
    /\ iso' = [fitted |-> TRUE, X |-> fit_transform(df, key_cols, nrows)]
    /\ pc' = "iso_predict"
    /\ UNCHANGED <<columns, df, nrows, key_cols, reg_inputs, iso_input, reg,
                   error, report>>

\* Line 72.
IsoPredict ==
    /\ pc = "iso_predict"
    /\ iso_input' = PredictArgument(df, key_cols, nrows)
    /\ \E label \in Labellings(iso_input') :
           df' = SetValues(df, "iso_flag", iso_flag(iso_input', label))
    /\ columns' = SetColumns(columns, "iso_flag")
    /\ pc' = "reg_check"
    /\ UNCHANGED <<nrows, key_cols, reg_inputs, iso, reg, error, report>>

\* Lines 77-80.
RegCheck ==
    /\ pc = "reg_check"
    /\ reg_inputs' = resolve_inputs(columns)
    /\ IF ResidualUnmet(reg_inputs', columns)
       THEN /\ pc' = "error"
            /\ error' = ResidualMessage
       ELSE /\ pc' = "reg_fit"
            /\ error' = error
    /\ UNCHANGED <<columns, df, nrows, key_cols, iso, iso_input, reg, report>>

\* Lines 82-86.
RegFit ==
    /\ pc = "reg_fit"
    /\ reg' = [fitted |-> TRUE]
    /\ LET X == AsArray(df, reg_inputs, nrows)
       IN  \E f \in Predictions(X) :
               df' = SetValues(df, "TEY_pred", TEY_pred(X, f))
    /\ columns' = SetColumns(columns, "TEY_pred")
    /\ pc' = "residual"
    /\ UNCHANGED <<nrows, key_cols, reg_inputs, iso, iso_input, error, report>>

\* Lines 87-90.
Residual ==
    /\ pc = "residual"
    /\ LET r == residual(df["TEY"], df["TEY_pred"])
       IN  df' = SetValues(SetValues(df, "residual", r), "res_flag", res_flag(r))
    /\ columns' = SetColumns(SetColumns(columns, "residual"), "res_flag")
    /\ pc' = "combine"
    /\ UNCHANGED <<nrows, key_cols, reg_inputs, iso, iso_input, reg, error, report>>

\* Lines 95-97.
Combine ==
    /\ pc = "combine"
    /\ df' = SetValues(df, "anomaly",
                       anomaly(df["z_flag"], df["iso_flag"], df["res_flag"]))
    /\ columns' = SetColumns(columns, "anomaly")
    /\ pc' = "report"
    /\ UNCHANGED <<nrows, key_cols, reg_inputs, iso, iso_input, reg, error, report>>

\* Lines 102-107.
Report ==
    /\ pc = "report"
    /\ report' = Append(report, to_csv(df, report_cols(key_cols), nrows))
    /\ pc' = "done"
    /\ UNCHANGED <<columns, df, nrows, key_cols, reg_inputs, iso, iso_input, reg,
                   error>>

Next ==
    \/ Resolve
    \/ ZScore
    \/ IsoFit
    \/ IsoPredict
    \/ RegCheck
    \/ RegFit
    \/ Residual
    \/ Combine
    \/ Report

Spec == Init /\ [][Next]_vars

-----------------------------------------------------------------------------
(* What the properties speak of *)

\* The columns of the input file: the frame's columns that no step added.
InputCols == Range(columns) \ Derived

\* The selected sensor columns, from the schema alone.
Sensors == InputCols \cap {"TIT", "TAT", "TEY", "CDP", "CO", "NOx"}

\* The predictors present, from the schema alone.
Predictors == InputCols \cap {"AT", "AP", "RH", "CDP"}

NoSensorSchema == Sensors = {}

NoResidualSchema == "TEY" \notin InputCols \/ Cardinality(Predictors) < 2

Has(c) == c \in DOMAIN df

IsBit(v) == v \in {0, 1}

Constant(x) == \A i, j \in DOMAIN x : x[i] = x[j]

SumOf(x) == Sum(x)

SumOfSquares(x) == Sum([i \in DOMAIN x |-> x[i] * x[i]])

\* |x[i] - mean| > 3 * (population standard deviation), that is
\* N * (x[i] - mean)^2 > 9 * (sum of squared deviations), times N^2.
PopulationAbove(x, i) ==
    LET n == Len(x)
        t == SumOf(x)
        d == n * x[i] - t
    IN  n * d * d > 9 * n * (n * SumOfSquares(x) - t * t)

\* |x[i] - mean| > 3 * (sample standard deviation), that is
\* (N - 1) * (x[i] - mean)^2 > 9 * (sum of squared deviations), times N^2.
SampleAbove(x, i) ==
    LET n == Len(x)
        t == SumOf(x)
        d == n * x[i] - t
    IN  (n - 1) * d * d > 9 * n * (n * SumOfSquares(x) - t * t)

-----------------------------------------------------------------------------
(* C1 *)

\* C1: once the combiner has run, for every record anomaly, z_flag, iso_flag
\* and res_flag are each 0 or 1, and anomaly is 1 exactly when at least one
\* of the three flags is 1.
C1_AnomalyIsOr ==
    Has("anomaly") =>
        \A i \in 1..nrows :
            /\ IsBit(df["anomaly"][i]) /\ IsBit(df["z_flag"][i])
            /\ IsBit(df["iso_flag"][i]) /\ IsBit(df["res_flag"][i])
            /\ df["anomaly"][i] = 1 <=>
                   \/ df["z_flag"][i] = 1
                   \/ df["iso_flag"][i] = 1
                   \/ df["res_flag"][i] = 1

\* A combined frame in which one record is anomalous by its residual alone
\* and another record is not anomalous.
C1_Witness ==
    /\ Has("anomaly")
    /\ \E i, j \in 1..nrows :
           /\ df["anomaly"][i] = 1 /\ df["z_flag"][i] = 0
           /\ df["iso_flag"][i] = 0 /\ df["res_flag"][i] = 1
           /\ df["anomaly"][j] = 0

-----------------------------------------------------------------------------
(* C2 *)

\* C2: a schema error aborts the run before any detector executes: in the
\* error state no z_flag and no iso_flag has been computed and neither
\* model has been fitted.
C2_AbortsBeforeDetectors ==
    pc = "error" =>
        /\ ~Has("z_flag") /\ ~Has("iso_flag")
        /\ ~iso.fitted /\ ~reg.fitted

-----------------------------------------------------------------------------
(* C3 *)

\* C3: no partial results.  On a schema with no candidate sensor column, or
\* without TEY, or with fewer than two of AT, AP, RH, CDP, the run never gets
\* past the residual precondition and never writes the report, and the step
\* that checks the missing columns ends the run in an error; on every other
\* schema the run never ends in an error; the report is written at most
\* once, by the step that finishes the run, with every report column and one
\* row per record.
C3_ReportAllOrNothing ==
    /\ [](/\ Len(report) <= 1
          /\ (NoSensorSchema \/ NoResidualSchema) =>
                 /\ report = <<>>
                 /\ pc \in {"resolve", "zscore", "iso_fit", "iso_predict",
                            "reg_check", "error"}
          /\ ~(NoSensorSchema \/ NoResidualSchema) => pc # "error"
          /\ pc = "error" => error # <<>>
          /\ pc = "done" <=> Len(report) = 1
          /\ Len(report) = 1 =>
                 /\ Len(report[1].rows) = nrows
                 /\ Len(report[1].header) = 6 + Cardinality(Sensors))
    /\ [][/\ (pc = "resolve" /\ NoSensorSchema) => pc' = "error"
          /\ (pc = "reg_check" /\ NoResidualSchema) => pc' = "error"
          /\ pc' = "error" => report' = <<>>
          /\ report' # report =>
                 pc = "report" /\ pc' = "done" /\ report = <<>>]_vars

\* A run that ended in the residual precondition's error after the first two
\* detectors had run, with no report.
C3_Witness ==
    /\ pc = "error"
    /\ ~NoSensorSchema /\ NoResidualSchema
    /\ Has("iso_flag")
    /\ report = <<>>

-----------------------------------------------------------------------------
(* C4 *)

\* C4: the message of every schema error names every column of the input
\* dataset.
C4_ErrorListsColumns ==
    pc = "error" => \A c \in InputCols : c \in Range(error)

-----------------------------------------------------------------------------
(* C5 *)

\* C5: zero-variance safety.  Once past the z-score step, a run whose
\* sensor columns resolved has a z_flag for every record (the step raised
\* nothing), and a record has z_flag = 1 only if some selected column that is not constant
\* has an absolute score above 3 for it (with the sample and with the
\* population standard deviation alike); so when every selected column is
\* constant, z_flag is 0 on every record.
C5_ZeroVarianceSafe ==
    /\ (pc \notin {"resolve", "zscore"} /\ Sensors # {}) =>
           Has("z_flag") /\ Len(df["z_flag"]) = nrows
    /\ Has("z_flag") =>
           \A i \in 1..nrows :
               /\ IsBit(df["z_flag"][i])
               /\ df["z_flag"][i] = 1 =>
                      \E c \in Sensors :
                          /\ ~Constant(df[c])
                          /\ SampleAbove(df[c], i)
                          /\ PopulationAbove(df[c], i)

\* After the z-score step: a selected column is constant over eleven or more
\* records, and a record is flagged through another column.
C5_Witness ==
    /\ Has("z_flag")
    /\ nrows >= 11
    /\ \E c \in Sensors : Constant(df[c])
    /\ \E i \in 1..nrows : df["z_flag"][i] = 1

-----------------------------------------------------------------------------
(* C6 *)

\* C6: the matrix handed to the outlier model for labelling is the
\* standardized matrix the model was fitted on.
C6_PredictsOnFittedMatrix ==
    Has("iso_flag") => iso.fitted /\ iso_input = iso.X

-----------------------------------------------------------------------------
(* The five-row scenario *)

\* With fewer than eleven records no record is flagged by the z-score step:
\* a reading is at most (N - 1) / sqrt(N) sample standard deviations from
\* its column's mean, which is below 3 up to N = 10.
NoZFlagBelowElevenRows ==
    (Has("z_flag") /\ nrows < 11) => \A i \in 1..nrows : df["z_flag"][i] = 0

\* No reading is 10 population standard deviations from its column's mean in
\* a frame of at most MaxN records: 100 * (sum of squared deviations) is
\* never N * (x[i] - mean)^2 unless both are 0.
NoTenSigmaReading ==
    \A c \in Sensors : \A i \in 1..nrows :
        LET x == df[c]
            n == Len(x)
            d == n * x[i] - SumOf(x)
            q == n * (n * SumOfSquares(x) - SumOf(x) * SumOf(x))
        IN  q # 0 => n * d * d < 100 * q /\ (n - 1) * d * d < 100 * q

-----------------------------------------------------------------------------
(* C8 *)

\* C8: z_flag of a record is 1 if and only if, for at least one selected
\* column, |value - mean| > 3 * std with std the population standard
\* deviation.
C8_PopulationStd ==
    Has("z_flag") =>
        \A i \in 1..nrows :
            df["z_flag"][i] = 1 <=> \E c \in Sensors : PopulationAbove(df[c], i)

\* C8, amended: z_flag of a record is 1 if and only if, for at least one
\* selected column, |value - mean| > 3 * std with std the sample standard
\* deviation (sum of squared deviations divided by N - 1).
C8_SampleStd ==
    Has("z_flag") =>
        \A i \in 1..nrows :
            df["z_flag"][i] = 1 <=> \E c \in Sensors : SampleAbove(df[c], i)

\* After the z-score step: a record more than 3 population standard
\* deviations from a selected column's mean that is not flagged, and a
\* record that is flagged.
C8_Witness ==
    /\ Has("z_flag")
    /\ \E i \in 1..nrows :
           df["z_flag"][i] = 0 /\ \E c \in Sensors : PopulationAbove(df[c], i)

-----------------------------------------------------------------------------
(* C9 *)

\* C9: the dataset is append-only: no step changes the number of records,
\* removes or reorders a column, or changes a value of a column that exists;
\* a step only adds derived columns, after the existing ones; and a finished
\* run has added all six.
C9_AppendOnly ==
    /\ [][/\ nrows' = nrows
          /\ Len(columns') >= Len(columns)
          /\ \A k \in DOMAIN columns : columns'[k] = columns[k]
          /\ \A c \in DOMAIN df : c \in DOMAIN df' /\ df'[c] = df[c]
          /\ DOMAIN df' = Range(columns')
          /\ DOMAIN df' \ DOMAIN df \subseteq Derived
          /\ \A c \in DOMAIN df' : Len(df'[c]) = nrows]_vars
    /\ [](pc = "done" => Derived \subseteq DOMAIN df)

\* A finished run, all six derived columns added after the input's.
C9_Witness ==
    /\ pc = "done"
    /\ Derived \subseteq DOMAIN df
    /\ Len(columns) = Cardinality(InputCols) + 6

-----------------------------------------------------------------------------
(* C10 *)

\* The sensor columns present, in the candidates' declared order.
DeclaredOrder ==
    SelectSeq(<<"TIT", "TAT", "TEY", "CDP", "CO", "NOx">>,
              LAMBDA c : c \in InputCols)

\* C10: the report of a finished run has the columns anomaly, z_flag,
\* iso_flag, res_flag, the sensor columns present in the candidates' declared
\* order, TEY_pred, residual; one row per record, in order; and every value
\* is the frame's value for that record and column.
C10_ReportShape ==
    pc = "done" =>
        /\ Len(report) = 1
        /\ report[1].header =
               <<"anomaly", "z_flag", "iso_flag", "res_flag">>
                   \o DeclaredOrder \o <<"TEY_pred", "residual">>
        /\ DOMAIN report[1].rows = 1..nrows
        /\ \A i \in 1..nrows :
               /\ DOMAIN report[1].rows[i] = DOMAIN report[1].header
               /\ \A j \in DOMAIN report[1].header :
                      report[1].rows[i][j] = df[report[1].header[j]][i]

\* A finished run on a schema that lists CDP before TEY.
C10_Witness ==
    /\ pc = "done"
    /\ Len(report) = 1
    /\ \E j, k \in DOMAIN columns :
           j < k /\ columns[j] = "CDP" /\ columns[k] = "TEY"

====
